---- MODULE Spec2Model ----
(***************************************************************************)
(* Model of the dronecan crate: the multi-frame transfer reassembler       *)
(* (src/src/transfer.rs) and the 29-bit identifier codec (src/src/id.rs).  *)
(*                                                                         *)
(* A Transfer is the record [kind, storage, length, transfer_id, toggle].  *)
(* kind is the ManagedSlice variant: "Owned" (a Vec<u8>, storage is the    *)
(* vector's contents) or "Borrowed" (a &mut [u8], storage is the whole     *)
(* buffer, Len(storage) its capacity).  Bytes are integers 0..255.         *)
(***************************************************************************)
EXTENDS Integers, Sequences, FiniteSets

VARIABLES
    kind,         \* ManagedSlice variant of self.storage
    storage,      \* self.storage
    length,       \* self.length
    transfer_id,  \* self.transfer_id
    toggle,       \* self.toggle
    res,          \* outcome of the last call on the Transfer
    payload,      \* the slice returned inside Ok(Some(..)), else << >>
    wr,           \* end index of the range the last call wrote in a borrowed buffer
    h,            \* history of the calls made on this Transfer
    raw,          \* argument of the last Id::new call
    id,           \* the Id built by the last Id call
    enc,          \* id.as_raw()
    args          \* the last Id call: its function and the fields given to it

tvars == <<kind, storage, length, transfer_id, toggle, res, payload, wr, h>>
ivars == <<raw, id, enc, args>>
vars == <<kind, storage, length, transfer_id, toggle, res, payload, wr, h,
          raw, id, enc, args>>

(***************************************************************************)
(* Bounds of the model.                                                    *)
(***************************************************************************)
\* An owned vector is followed up to this many bytes.
MaxStore == 3
\* The two capacities of borrowed buffers.
SmallCap == 1
MaxCap == 3

\* data.len() > 8 is DataLength
MaxFrameLen == 8

\* transfer ids carried by the frames fed (5 bits)
TransferIds == {0, 29}
\* a frame's i-th byte before the tail is 16 + i: the bytes tell their place in the frame
PayloadBytes == [i \in 1..MaxFrameLen |-> 16 + i]
\* what a borrowed buffer may hold when it is handed to Transfer::new
Fills == {170}

(***************************************************************************)
(* Tail byte                                                               *)
(***************************************************************************)
\* (b & (1 << k)) != 0
BitSet(b, k) == (b \div (2 ^ k)) % 2 = 1

TailStart(t) == BitSet(t, 7)

TailEnd(t) == BitSet(t, 6)

TailToggle(t) == BitSet(t, 5)

\* self.0 & 0x1F
TailTransferId(t) == t % 32

\* the tail byte with the given bits
MkTail(start, end, tog, tid) ==
    (IF start THEN 128 ELSE 0) + (IF end THEN 64 ELSE 0) + (IF tog THEN 32 ELSE 0) + tid

TailBytes == {MkTail(s, e, g, i) : s \in BOOLEAN, e \in BOOLEAN, g \in BOOLEAN, i \in TransferIds}

\* a frame of n bytes ending in the given tail byte
MkFrame(n, tail) == [i \in 1..n |-> IF i = n THEN tail ELSE PayloadBytes[i]]

\* the frames fed: every length 0..9, every tail
Frames == {<< >>} \cup {MkFrame(n, t) : n \in 1..(MaxFrameLen + 1), t \in TailBytes}

(***************************************************************************)
(* Slices.  s[lo..hi] of Rust is defined when lo <= hi <= s.len(), and     *)
(* panics otherwise.                                                       *)
(***************************************************************************)
RangeOk(s, lo, hi) == lo <= hi /\ hi <= Len(s)

Range(s, lo, hi) == SubSeq(s, lo + 1, hi)

(***************************************************************************)
(* Transfer::add_frame                                                     *)
(***************************************************************************)
Self == [kind |-> kind, storage |-> storage, length |-> length,
         transfer_id |-> transfer_id, toggle |-> toggle]

\* mutant of Err: the Transfer is emptied when an error is returned
ErrResets(t, e) == [t |-> [t EXCEPT !.length = 0], res |-> e, payload |-> << >>, wr |-> 0]

\* return Err(e): the Transfer is left as it is at that point
Err(t, e) == [t |-> t, res |-> e, payload |-> << >>, wr |-> 0]

\* the slice index panicked: the call never returns
Panicked(t, at) == [t |-> t, res |-> "Panic", payload |-> << >>, wr |-> at]

\* data.len() > 8
TooLong(d) == Len(d) > MaxFrameLen

\* tail.start() && self.length != 0
StartMidTransfer(t, tail) == TailStart(tail) /\ t.length # 0

\* mutant of EndBeforeStart: the length test inverted
EndBeforeStartInverted(t, tail) == t.length # 0 /\ TailEnd(tail)

\* self.length == 0 && tail.end()
EndBeforeStart(t, tail) == t.length = 0 /\ TailEnd(tail)

\* self.transfer_id != tail.transfer_id()
IdDiffers(t, tail) == t.transfer_id # TailTransferId(tail)

\* mutant of ToggleRepeats: the comparison inverted
ToggleRepeatsInverted(t, tail) == t.toggle # TailToggle(tail)

\* self.toggle == tail.toggle()
ToggleRepeats(t, tail) == t.toggle = TailToggle(tail)

\* mutant of CommitStart: the transfer id is not committed
CommitStartToggleOnly(t, tail) == [t EXCEPT !.toggle = TailToggle(tail)]

\* self.transfer_id = tail.transfer_id(); self.toggle = tail.toggle();
CommitStart(t, tail) ==
    [t EXCEPT !.transfer_id = TailTransferId(tail), !.toggle = TailToggle(tail)]

\* self.toggle = tail.toggle();
CommitToggle(t, tail) == [t EXCEPT !.toggle = TailToggle(tail)]

\* mutant of InnerFrom: the crc of a first frame is not skipped
InnerFromNoCrc(tail) == 0

\* where inner_data starts in data: 2 past the crc of a start-and-not-end frame
InnerFrom(tail) == IF TailStart(tail) /\ ~TailEnd(tail) THEN 2 ELSE 0

\* whether &data[from..data.len() - 1] is defined (data is not empty)
InnerDefined(d) == RangeOk(d, InnerFrom(d[Len(d)]), Len(d) - 1)

\* inner_data
InnerData(d) == Range(d, InnerFrom(d[Len(d)]), Len(d) - 1)

\* mutant of TooSmall: a payload that fills the buffer exactly is refused
TooSmallOffByOne(t, inner) == t.length + Len(inner) >= Len(t.storage)

\* mutant of TooSmall: the bytes already written are not counted
TooSmallIgnoresLength(t, inner) == Len(inner) > Len(t.storage)

\* self.length + inner_data.len() > slice.len()
TooSmall(t, inner) == t.length + Len(inner) > Len(t.storage)

\* slice[at..at + inner.len()].copy_from_slice(inner)
CopyFromSlice(s, at, inner) ==
    [i \in 1..Len(s) |-> IF at < i /\ i <= at + Len(inner) THEN inner[i - at] ELSE s[i]]

\* mutant of StoreInner: the bytes that fit are copied before BufferTooSmall
StoreInnerPartial(t, inner) ==
    IF t.kind = "Owned"
    THEN [err |-> "", t |-> [t EXCEPT !.storage = @ \o inner], wr |-> 0]
    ELSE IF TooSmall(t, inner)
    THEN [err |-> "BufferTooSmall",
          t |-> [t EXCEPT !.storage = CopyFromSlice(@, t.length, inner)],
          wr |-> Len(t.storage)]
    ELSE [err |-> "", t |-> [t EXCEPT !.storage = CopyFromSlice(@, t.length, inner)],
          wr |-> t.length + Len(inner)]

\* match &mut self.storage { Owned(vec) => .., Borrowed(slice) => .. }
\* err is "" when the match falls through to self.length += ..
StoreInner(t, inner) ==
    IF t.kind = "Owned"
    THEN [err |-> "", t |-> [t EXCEPT !.storage = @ \o inner], wr |-> 0]
    ELSE IF TooSmall(t, inner)
    THEN [err |-> "BufferTooSmall", t |-> t, wr |-> 0]
    ELSE IF ~RangeOk(t.storage, t.length, t.length + Len(inner))
    THEN [err |-> "Panic", t |-> t, wr |-> t.length + Len(inner)]
    ELSE [err |-> "", t |-> [t EXCEPT !.storage = CopyFromSlice(@, t.length, inner)],
          wr |-> t.length + Len(inner)]

\* mutant of Finish: the Transfer is emptied once the payload of an end frame is returned
FinishResets(t, tail, n, w) ==
    LET u == [t EXCEPT !.length = @ + n] IN
    IF ~TailEnd(tail) THEN [t |-> u, res |-> "None", payload |-> << >>, wr |-> w]
    ELSE IF ~RangeOk(u.storage, 0, u.length) THEN Panicked(u, w)
    ELSE [t |-> [u EXCEPT !.length = 0], res |-> "Some",
          payload |-> Range(u.storage, 0, u.length), wr |-> w]

\* self.length += inner_data.len(); Ok(if tail.end() { Some(&self.storage[..self.length]) }
\* else { None })
Finish(t, tail, n, w) ==
    LET u == [t EXCEPT !.length = @ + n] IN
    IF ~TailEnd(tail) THEN [t |-> u, res |-> "None", payload |-> << >>, wr |-> w]
    ELSE IF ~RangeOk(u.storage, 0, u.length) THEN Panicked(u, w)
    ELSE [t |-> u, res |-> "Some", payload |-> Range(u.storage, 0, u.length), wr |-> w]

\* add_frame from the computation of inner_data on; t has the tail's commits
Store(t, d) ==
    IF ~InnerDefined(d) THEN Panicked(t, 0)
    ELSE LET inner == InnerData(d)
             s == StoreInner(t, inner)
         IN  IF s.err = "Panic" THEN Panicked(s.t, s.wr)
             ELSE IF s.err # "" THEN Err(s.t, s.err)
             ELSE Finish(s.t, d[Len(d)], Len(inner), s.wr)

\* mutant of AddFrameCall: the toggle is checked before the transfer id
AddFrameCallToggleFirst(t, d) ==
    IF TooLong(d) THEN Err(t, "DataLength")
    ELSE IF d = << >> THEN Err(t, "DataLength")
    ELSE LET tail == d[Len(d)] IN
         IF StartMidTransfer(t, tail) THEN Err(t, "FrameOrder")
         ELSE IF TailStart(tail) THEN Store(CommitStart(t, tail), d)
         ELSE IF EndBeforeStart(t, tail) THEN Err(t, "FrameOrder")
         ELSE IF ToggleRepeats(t, tail) THEN Err(t, "Toggle")
         ELSE IF IdDiffers(t, tail) THEN Err(t, "IdMismatch")
         ELSE Store(CommitToggle(t, tail), d)

\* the whole of add_frame: [t: the Transfer after the call, res, payload, wr]
AddFrameCall(t, d) ==
    IF TooLong(d) THEN Err(t, "DataLength")
    ELSE IF d = << >> THEN Err(t, "DataLength")
    ELSE LET tail == d[Len(d)] IN
         IF StartMidTransfer(t, tail) THEN Err(t, "FrameOrder")
         ELSE IF TailStart(tail) THEN Store(CommitStart(t, tail), d)
         ELSE IF EndBeforeStart(t, tail) THEN Err(t, "FrameOrder")
         ELSE IF IdDiffers(t, tail) THEN Err(t, "IdMismatch")
         ELSE IF ToggleRepeats(t, tail) THEN Err(t, "Toggle")
         ELSE Store(CommitToggle(t, tail), d)

(***************************************************************************)
(* History of the calls on one Transfer, kept to state the properties.     *)
(*   open       a start-and-not-end frame was accepted and no end-marked   *)
(*              frame has been accepted since                              *)
(*   accepted   the FrameSlice of every frame accepted so far, in order    *)
(*   hasAcc, accToggle    the toggle bit of the last accepted frame        *)
(*   hasStart, startId    the transfer id of the last accepted start frame *)
(*   passToggle the toggle bit of the last frame that got past the order,  *)
(*              id and toggle checks (false before any)                    *)
(*   passId     the transfer id of the last start frame that got past the  *)
(*              order check (0 before any)                                 *)
(***************************************************************************)
Accepted(r) == r \in {"None", "Some"}

\* what an accepted frame adds to the payload: data[2..len-1] of a start-and-not-end
\* frame, data[0..len-1] of any other
FrameSlice(d) ==
    IF TailStart(d[Len(d)]) /\ ~TailEnd(d[Len(d)])
    THEN SubSeq(d, 3, Len(d) - 1)
    ELSE SubSeq(d, 1, Len(d) - 1)

PastChecks(r) == r \in {"None", "Some", "BufferTooSmall", "Panic"}

H0 == [open |-> FALSE, accepted |-> << >>, hasAcc |-> FALSE, accToggle |-> FALSE,
       hasStart |-> FALSE, startId |-> 0, passToggle |-> FALSE, passId |-> 0]

HistAfter(g, d, r) ==
    IF ~PastChecks(r) THEN g
    ELSE LET tail == d[Len(d)]
             p == [g EXCEPT !.passToggle = TailToggle(tail),
                            !.passId = IF TailStart(tail) THEN TailTransferId(tail) ELSE @]
         IN  IF ~Accepted(r) THEN p
             ELSE [p EXCEPT
                     !.open = IF TailEnd(tail) THEN FALSE
                              ELSE IF TailStart(tail) THEN TRUE ELSE @,
                     !.accepted = @ \o FrameSlice(d),
                     !.hasAcc = TRUE,
                     !.accToggle = TailToggle(tail),
                     !.hasStart = @ \/ TailStart(tail),
                     !.startId = IF TailStart(tail) THEN TailTransferId(tail) ELSE @]

(***************************************************************************)
(* Identifier (src/src/id.rs).  An Id is a record tagged by variant; u32    *)
(* arithmetic is done on naturals below 2^32.                              *)
(***************************************************************************)
\* x >> k
Shr(x, k) == x \div (2 ^ k)

\* x << k
Shl(x, k) == x * (2 ^ k)

\* x & (2^k - 1)
LowBits(x, k) == x % (2 ^ k)

RECURSIVE BitOr(_, _)
\* a | b
BitOr(a, b) ==
    IF a = 0 THEN b
    ELSE IF b = 0 THEN a
    ELSE (IF a % 2 = 1 \/ b % 2 = 1 THEN 1 ELSE 0) + 2 * BitOr(a \div 2, b \div 2)

\* mutant of IdNew: the fields are read from the raw value as given, not masked to 29 bits
IdNewNoMask(r) ==
    LET x == r
        priority == LowBits(Shr(x, 24), 8)
        source_node == LowBits(x, 7)
    IN  IF BitSet(x, 7)
        THEN [variant |-> "Service", priority |-> priority,
              service_type |-> LowBits(Shr(x, 16), 8), request |-> BitSet(x, 15),
              destination_node |-> LowBits(Shr(x, 8), 7), source_node |-> source_node]
        ELSE IF source_node = 0
        THEN [variant |-> "Anonymous", priority |-> priority,
              discriminator |-> LowBits(Shr(x, 10), 14), type_id |-> LowBits(Shr(x, 8), 2)]
        ELSE [variant |-> "Message", priority |-> priority,
              type_id |-> LowBits(Shr(x, 8), 16), source_node |-> source_node]

\* embedded_can::ExtendedId::MAX.as_raw() is 0x1FFF_FFFF: 29 bits
IdNew(r) ==
    LET x == LowBits(r, 29)
        priority == LowBits(Shr(x, 24), 8)
        source_node == LowBits(x, 7)
    IN  IF BitSet(x, 7)
        THEN [variant |-> "Service", priority |-> priority,
              service_type |-> LowBits(Shr(x, 16), 8), request |-> BitSet(x, 15),
              destination_node |-> LowBits(Shr(x, 8), 7), source_node |-> source_node]
        ELSE IF source_node = 0
        THEN [variant |-> "Anonymous", priority |-> priority,
              discriminator |-> LowBits(Shr(x, 10), 14), type_id |-> LowBits(Shr(x, 8), 2)]
        ELSE [variant |-> "Message", priority |-> priority,
              type_id |-> LowBits(Shr(x, 8), 16), source_node |-> source_node]

\* mutant of AsRaw: the service bit is not set
AsRawNoServiceBit(i) ==
    IF i.variant = "Message"
    THEN BitOr(BitOr(Shl(LowBits(i.priority, 5), 24), Shl(i.type_id, 8)),
               LowBits(i.source_node, 7))
    ELSE IF i.variant = "Anonymous"
    THEN BitOr(BitOr(Shl(LowBits(i.priority, 5), 24), Shl(LowBits(i.discriminator, 14), 10)),
               Shl(LowBits(i.type_id, 2), 8))
    ELSE BitOr(BitOr(BitOr(BitOr(Shl(LowBits(i.priority, 5), 24), Shl(i.service_type, 16)),
                           Shl(IF i.request THEN 1 ELSE 0, 15)),
                     Shl(LowBits(i.destination_node, 7), 8)),
               LowBits(i.source_node, 7))

\* mutant of AsRaw: the priority is masked with 0x3F
AsRawWidePriority(i) ==
    IF i.variant = "Message"
    THEN BitOr(BitOr(Shl(LowBits(i.priority, 6), 24), Shl(i.type_id, 8)),
               LowBits(i.source_node, 7))
    ELSE IF i.variant = "Anonymous"
    THEN BitOr(BitOr(Shl(LowBits(i.priority, 6), 24), Shl(LowBits(i.discriminator, 14), 10)),
               Shl(LowBits(i.type_id, 2), 8))
    ELSE BitOr(BitOr(BitOr(BitOr(BitOr(Shl(LowBits(i.priority, 6), 24),
                                       Shl(i.service_type, 16)),
                                 Shl(IF i.request THEN 1 ELSE 0, 15)),
                           Shl(LowBits(i.destination_node, 7), 8)),
                     Shl(1, 7)),
               LowBits(i.source_node, 7))

\* Id::as_raw
AsRaw(i) ==
    IF i.variant = "Message"
    THEN BitOr(BitOr(Shl(LowBits(i.priority, 5), 24), Shl(i.type_id, 8)),
               LowBits(i.source_node, 7))
    ELSE IF i.variant = "Anonymous"
    THEN BitOr(BitOr(Shl(LowBits(i.priority, 5), 24), Shl(LowBits(i.discriminator, 14), 10)),
               Shl(LowBits(i.type_id, 2), 8))
    ELSE BitOr(BitOr(BitOr(BitOr(BitOr(Shl(LowBits(i.priority, 5), 24),
                                       Shl(i.service_type, 16)),
                                 Shl(IF i.request THEN 1 ELSE 0, 15)),
                           Shl(LowBits(i.destination_node, 7), 8)),
                     Shl(1, 7)),
               LowBits(i.source_node, 7))

\* the raw values fed to Id::new: bits 31..29 (dropped by the mask, bit 31 left out:
\* 2^31 is no value here), priority, bits 23..8, the service bit, bits 6..0
RawInputs ==
    {Shl(hi, 29) + Shl(p, 24) + Shl(m, 8) + Shl(sv, 7) + n :
        hi \in {0, 3}, p \in {0, 8, 16, 24, 31},
        m \in {0, 341, 1010, 20007, 20013, 65535},
        sv \in {0, 1}, n \in {0, 10, 122, 127}}

\* None of Option<Id>
Absent == [variant |-> "Absent"]

\* Id::message
IdMessage(source_node, type_id, priority) ==
    IF priority > 31 THEN Absent
    ELSE IF source_node = 0 \/ source_node > 127 THEN Absent
    ELSE [variant |-> "Message", priority |-> priority, type_id |-> type_id,
          source_node |-> source_node]

\* mutant of IdAnonymous: type_id is stored as given, cut to u8 but not to 2 bits
IdAnonymousNoTypeMask(type_id, discriminator, priority) ==
    IF priority > 31 THEN Absent
    ELSE IF discriminator > 16383 THEN Absent
    ELSE [variant |-> "Anonymous", priority |-> priority,
          discriminator |-> discriminator, type_id |-> LowBits(type_id, 8)]

\* Id::anonymous
IdAnonymous(type_id, discriminator, priority) ==
    IF priority > 31 THEN Absent
    ELSE IF discriminator > 16383 THEN Absent
    ELSE [variant |-> "Anonymous", priority |-> priority,
          discriminator |-> discriminator, type_id |-> LowBits(LowBits(type_id, 2), 8)]

\* Id::service
IdService(source_node, destination_node, service_type, request, priority) ==
    IF priority > 31 THEN Absent
    ELSE IF source_node > 127 \/ destination_node > 127 THEN Absent
    ELSE [variant |-> "Service", priority |-> priority, service_type |-> service_type,
          request |-> request, destination_node |-> destination_node,
          source_node |-> source_node]

\* embedded_can::ExtendedId::new(raw): None above ExtendedId::MAX (29 bits)
ExtendedIdNew(r) == IF r > 2 ^ 29 - 1 THEN Absent ELSE [variant |-> "ExtendedId", raw |-> r]

\* the u8 and u16 values given as fields: the ends of each declared range, the first
\* value past it and the largest value of the type
Priorities == {0, 31, 32, 255}
NodeIds == {0, 123, 127, 128}
TypeIds == {0, 123, 65535}
Discriminators == {0, 123, 16383, 16384, 65535}
ServiceTypes == {123, 255}

\* the Id values that struct expressions build inside the crate, fields of any value
IdValues ==
    {[variant |-> "Message", priority |-> p, type_id |-> t, source_node |-> s] :
        p \in {31, 32, 255}, t \in {0, 65535}, s \in {0, 127, 128, 255}}
    \cup {[variant |-> "Anonymous", priority |-> p, discriminator |-> d, type_id |-> t] :
        p \in {31, 32, 255}, d \in {16383, 16384, 65535}, t \in {3, 4, 255}}
    \cup {[variant |-> "Service", priority |-> p, service_type |-> st, request |-> rq,
           destination_node |-> dn, source_node |-> s] :
        p \in {31, 32, 255}, st \in {0, 255}, rq \in BOOLEAN,
        dn \in {127, 128, 255}, s \in {127, 255}}

(***************************************************************************)
(* Transfer::new                                                           *)
(***************************************************************************)
\* the storages handed to Transfer::new: a vector, or a buffer
Storages ==
    {[kind |-> "Owned", buf |-> v] : v \in {<< >>, <<170, 170>>}}
    \cup {[kind |-> "Borrowed", buf |-> [i \in 1..c |-> f]] : c \in {SmallCap, MaxCap}, f \in Fills}

\* mutant of NewTransfer: the toggle starts set
NewTransferToggleSet(s) ==
    [kind |-> s.kind, storage |-> IF s.kind = "Owned" THEN << >> ELSE s.buf,
     length |-> 0, transfer_id |-> 0, toggle |-> TRUE]

\* vec.clear() for an owned vector; a borrowed buffer is taken as it is
NewTransfer(s) ==
    [kind |-> s.kind, storage |-> IF s.kind = "Owned" THEN << >> ELSE s.buf,
     length |-> 0, transfer_id |-> 0, toggle |-> FALSE]

SetTransfer(t) ==
    /\ kind' = t.kind
    /\ storage' = t.storage
    /\ length' = t.length
    /\ transfer_id' = t.transfer_id
    /\ toggle' = t.toggle

IdInit ==
    /\ raw = 0
    /\ id = [variant |-> "None"]
    /\ enc = 0
    /\ args = [fn |-> "none"]

Init ==
    /\ \E s \in Storages :
         LET t == NewTransfer(s) IN
         /\ kind = t.kind
         /\ storage = t.storage
         /\ length = t.length
         /\ transfer_id = t.transfer_id
         /\ toggle = t.toggle
    /\ res = "New"
    /\ payload = << >>
    /\ wr = 0
    /\ h = H0
    /\ IdInit

\* the caller replaces the Transfer by a new one (examples/transfer.rs)
New(s) ==
    /\ res # "Panic"
    /\ SetTransfer(NewTransfer(s))
    /\ res' = "New"
    /\ payload' = << >>
    /\ wr' = 0
    /\ h' = H0
    /\ UNCHANGED ivars

\* transfer.add_frame(&d); an owned vector is followed up to MaxStore bytes
AddFrame(d) ==
    /\ res # "Panic"
    /\ LET r == AddFrameCall(Self, d) IN
       /\ kind = "Owned" => Len(r.t.storage) <= MaxStore
       /\ SetTransfer(r.t)
       /\ res' = r.res
       /\ payload' = r.payload
       /\ wr' = r.wr
       /\ h' = HistAfter(h, d, r.res)
    /\ UNCHANGED ivars

Next ==
    \/ \E s \in Storages : New(s)
    \/ \E d \in Frames : AddFrame(d)

Spec == Init /\ [][Next]_vars

\* Id::new(r).as_raw()
IdNewCall(r) ==
    /\ raw' = r
    /\ id' = IdNew(r)
    /\ enc' = AsRaw(IdNew(r))
    /\ args' = [fn |-> "new"]
    /\ UNCHANGED tvars

\* what the caller makes of an Option<Id>: as_raw() of the Id when there is one
SetId(i) ==
    /\ id' = i
    /\ enc' = IF i = Absent THEN 0 ELSE AsRaw(i)
    /\ raw' = 0
    /\ UNCHANGED tvars

\* Id::message(source_node, type_id, priority)
IdMessageCall(source_node, type_id, priority) ==
    /\ args' = [fn |-> "message", source_node |-> source_node, type_id |-> type_id,
                priority |-> priority]
    /\ SetId(IdMessage(source_node, type_id, priority))

\* Id::anonymous(type_id, discriminator, priority)
IdAnonymousCall(type_id, discriminator, priority) ==
    /\ args' = [fn |-> "anonymous", type_id |-> type_id, discriminator |-> discriminator,
                priority |-> priority]
    /\ SetId(IdAnonymous(type_id, discriminator, priority))

\* Id::service(source_node, destination_node, service_type, request, priority)
IdServiceCall(source_node, destination_node, service_type, request, priority) ==
    /\ args' = [fn |-> "service", source_node |-> source_node,
                destination_node |-> destination_node, service_type |-> service_type,
                request |-> request, priority |-> priority]
    /\ SetId(IdService(source_node, destination_node, service_type, request, priority))

\* embedded_can::ExtendedId::from(i): i.as_raw() handed to ExtendedId::new
IntoExtendedId(i) ==
    /\ args' = [fn |-> "into"]
    /\ SetId(i)

InitId == Init /\ kind = "Owned"

NextId ==
    \/ \E r \in RawInputs : IdNewCall(r)
    \/ \E s \in NodeIds, t \in TypeIds, p \in Priorities : IdMessageCall(s, t, p)
    \/ \E t \in TypeIds, d \in Discriminators, p \in Priorities : IdAnonymousCall(t, d, p)
    \/ \E s \in NodeIds, dn \in NodeIds, st \in ServiceTypes, rq \in BOOLEAN,
          p \in Priorities : IdServiceCall(s, dn, st, rq, p)
    \/ \E i \in IdValues : IntoExtendedId(i)

\* the identifier codec alone
SpecId == InitId /\ [][NextId]_vars

(***************************************************************************)
(* Properties of add_frame.  Call(d) is what add_frame would do with frame *)
(* d in the current state; every property below is stated for every state  *)
(* the Transfer reaches and every frame that can be fed to it there.  No   *)
(* frame follows a call that panicked (res = "Panic").                     *)
(***************************************************************************)
Call(d) == AddFrameCall(Self, d)

TailOf(d) == d[Len(d)]

\* the frames of length 1..=8
ValidFrames == {d \in Frames : Len(d) >= 1 /\ Len(d) <= MaxFrameLen}

\* those that are not start-marked
NonStartFrames == {d \in ValidFrames : ~TailStart(TailOf(d))}

Outcomes == {"None", "Some", "DataLength", "FrameOrder", "IdMismatch", "Toggle",
             "BufferTooSmall"}

\* C1: add_frame never aborts: for every frame of length 1..=8 it returns Ok (absent
\* or a payload) or one of the five errors, and the extraction data[2 .. len-1] of a
\* start-and-not-end frame is defined.
C1_NeverAborts ==
    /\ res # "Panic"
    /\ \A d \in ValidFrames :
         /\ Call(d).res \in Outcomes
         /\ TailStart(TailOf(d)) /\ ~TailEnd(TailOf(d)) => RangeOk(d, 2, Len(d) - 1)

\* C2: once a start-and-not-end frame has been accepted and no end-marked frame has
\* been accepted since, every start-marked frame of length 1..=8 is rejected with
\* FrameOrder.
C2_SecondStartRejected ==
    h.open /\ res # "Panic" => \A d \in ValidFrames : TailStart(TailOf(d)) => Call(d).res = "FrameOrder"

\* C3: a returned payload is the in-order concatenation of the slices of all the
\* frames accepted since construction (data[2 .. len-1] of a start-and-not-end frame,
\* data[0 .. len-1] of any other); an accepted frame returns a payload exactly when it
\* is end-marked; a start+end frame accepted by a fresh Transfer returns
\* data[0 .. len-1]; growable storage accepts every such frame.
C3_PayloadIsConcatenation ==
    /\ res = "Some" => payload = h.accepted
    /\ \A d \in Frames :
         LET r == Call(d) IN
         /\ r.res = "Some" => r.payload = h.accepted \o FrameSlice(d)
         /\ Accepted(r.res) => (r.res = "Some" <=> TailEnd(TailOf(d)))
         /\ /\ d \in ValidFrames
            /\ TailStart(TailOf(d)) /\ TailEnd(TailOf(d))
            /\ ~h.hasAcc /\ length = 0
            /\ kind = "Owned" \/ Accepted(r.res)
            => r.res = "Some" /\ r.payload = SubSeq(d, 1, Len(d) - 1)

\* a payload made of a first frame's slice followed by a continuation frame's
C3_MultiFramePayload ==
    res = "Some" /\ payload = <<PayloadBytes[3], PayloadBytes[1]>>

\* C4 as claimed: an accepted non-start frame's toggle differs from the toggle of the
\* frame accepted immediately before it, and a non-start frame with the committed
\* transfer id whose toggle repeats that toggle is rejected with Toggle.
C4_AlternatesAfterAccepted ==
    h.hasAcc /\ res # "Panic" =>
      \A d \in NonStartFrames :
        LET r == Call(d) IN
        /\ Accepted(r.res) => TailToggle(TailOf(d)) # h.accToggle
        /\ TailTransferId(TailOf(d)) = transfer_id /\ TailToggle(TailOf(d)) = h.accToggle
           => r.res = "Toggle"

\* C4 amended: an accepted non-start frame's toggle differs from the toggle of the
\* last frame that got past the order, id and toggle checks, accepted or rejected
\* with BufferTooSmall (false if there was none); a non-start frame of length 1..=8
\* with the committed transfer id whose toggle repeats it is rejected with Toggle,
\* unless it is end-marked while length = 0 (FrameOrder).
C4_AlternatesAfterChecked ==
    \A d \in NonStartFrames :
      LET r == Call(d) IN
      /\ Accepted(r.res) => TailToggle(TailOf(d)) # h.passToggle
      /\ /\ TailTransferId(TailOf(d)) = transfer_id
         /\ TailToggle(TailOf(d)) = h.passToggle
         /\ ~(length = 0 /\ TailEnd(TailOf(d)))
         => r.res = "Toggle"

\* a start frame and two continuation frames, each accepted
C4_TwoContinuations ==
    /\ res = "None"
    /\ h.hasStart
    /\ h.accepted = <<PayloadBytes[3], PayloadBytes[1], PayloadBytes[1]>>

\* C5 as claimed: after an accepted start frame, a non-start frame that is not
\* rejected with FrameOrder and whose transfer id differs from that start frame's is
\* rejected with IdMismatch, so every accepted non-start frame carries its id.
C5_IdOfAcceptedStart ==
    h.hasStart /\ res # "Panic" =>
      \A d \in NonStartFrames :
        LET r == Call(d) IN
        /\ r.res # "FrameOrder" /\ TailTransferId(TailOf(d)) # h.startId
           => r.res = "IdMismatch"
        /\ Accepted(r.res) => TailTransferId(TailOf(d)) = h.startId

\* C5 amended: the same, for the transfer id of the last start frame that got past
\* the FrameOrder check, whether it was then accepted or rejected with
\* BufferTooSmall.
C5_IdOfCheckedStart ==
    h.hasStart =>
      \A d \in NonStartFrames :
        LET r == Call(d) IN
        /\ r.res # "FrameOrder" /\ TailTransferId(TailOf(d)) # h.passId
           => r.res = "IdMismatch"
        /\ Accepted(r.res) => TailTransferId(TailOf(d)) = h.passId

\* a continuation frame accepted after a start frame with a non-zero transfer id
C5_ContinuationAccepted ==
    /\ Accepted(res)
    /\ h.hasStart /\ h.startId # 0 /\ transfer_id = h.startId
    /\ h.accepted = <<PayloadBytes[3], PayloadBytes[1]>>

\* C6: while length = 0, an end-marked non-start frame of length 1..=8 yields
\* FrameOrder, whatever its transfer id and toggle.
C6_EndFirstIsFrameOrder ==
    length = 0 =>
      \A d \in NonStartFrames : TailEnd(TailOf(d)) => Call(d).res = "FrameOrder"

\* FrameOrder at length 0 on a Transfer that accepted nothing: only an end-marked
\* non-start frame gets it there
C6_EndFirstRejected ==
    res = "FrameOrder" /\ length = 0 /\ ~h.hasAcc

\* the frame gets past the length, order, id and toggle checks
PassesChecks(d) ==
    /\ d \in ValidFrames
    /\ TailStart(TailOf(d)) => length = 0
    /\ ~TailStart(TailOf(d)) =>
         /\ ~(length = 0 /\ TailEnd(TailOf(d)))
         /\ TailTransferId(TailOf(d)) = transfer_id
         /\ TailToggle(TailOf(d)) # toggle

\* the length of the frame's payload: len - 3 for a start-and-not-end frame, else len - 1
PayloadLen(d) ==
    IF TailStart(TailOf(d)) /\ ~TailEnd(TailOf(d)) THEN Len(d) - 3 ELSE Len(d) - 1

\* C7: BufferTooSmall is returned exactly when the storage is fixed, the frame passed
\* the length, order, id and toggle checks and length + payload length exceeds the
\* capacity; a checked frame whose payload fits, exactly or not, is accepted; growable
\* storage never yields BufferTooSmall.
C7_BufferTooSmallExactly ==
    \A d \in Frames :
      LET r == Call(d) IN
      /\ r.res = "BufferTooSmall" <=>
           /\ kind = "Borrowed"
           /\ PassesChecks(d)
           /\ length + PayloadLen(d) > Len(storage)
      /\ /\ kind = "Borrowed"
         /\ PassesChecks(d)
         /\ PayloadLen(d) >= 0
         /\ length + PayloadLen(d) <= Len(storage)
         => Accepted(r.res) /\ r.t.length = length + PayloadLen(d)
      /\ kind = "Owned" => r.res # "BufferTooSmall"

\* a frame refused for lack of room after earlier frames were accepted
C7_TooSmallAfterAccepted ==
    /\ res = "BufferTooSmall"
    /\ kind = "Borrowed"
    /\ h.hasAcc /\ length > 0 /\ length < Len(storage)

\* C8: with fixed storage of capacity C, length <= C after any sequence of calls, no
\* call writes at an index >= C, the capacity never changes, and every returned
\* payload is storage[0..length].
C8_WithinBuffer ==
    kind = "Borrowed" =>
      /\ length <= Len(storage)
      /\ wr <= Len(storage)
      /\ res = "Some" => payload = SubSeq(storage, 1, length)
      /\ \A d \in Frames :
           LET r == Call(d) IN
           /\ r.t.length <= Len(storage)
           /\ r.wr <= Len(storage)
           /\ Len(r.t.storage) = Len(storage)
           /\ r.res # "Panic" \/ ~PassesChecks(d) \/ PayloadLen(d) < 0
           /\ r.res = "Some" => /\ Len(r.payload) = r.t.length
                                /\ r.payload = SubSeq(r.t.storage, 1, r.t.length)

\* a payload that fills the borrowed buffer to its last byte
C8_BufferFilled ==
    /\ kind = "Borrowed"
    /\ res = "Some"
    /\ wr = Len(storage) /\ length = Len(storage) /\ Len(payload) = Len(storage)

\* C9: a call that fails with BufferTooSmall leaves length and the bytes of storage
\* as they were: no partial copy, no rollback.
C9_TooSmallWritesNothing ==
    \A d \in Frames :
      LET r == Call(d) IN
      r.res = "BufferTooSmall" =>
        /\ r.t.length = length
        /\ r.t.storage = storage
        /\ r.wr = 0

\* BufferTooSmall with bytes of earlier frames in the buffer and room left behind them
C9_TooSmallKeepsBytes ==
    /\ res = "BufferTooSmall"
    /\ length > 0
    /\ SubSeq(storage, 1, length) = h.accepted
    /\ \E i \in (length + 1)..Len(storage) : storage[i] \in Fills

\* the errors add_frame returns
Errors == {"DataLength", "FrameOrder", "IdMismatch", "Toggle", "BufferTooSmall"}

\* non-start, non-end frames of length 1..=8
MiddleFrames == {d \in NonStartFrames : ~TailEnd(TailOf(d))}

\* C15: Transfer::new gives an empty transfer, length 0, transfer_id 0, toggle false,
\* and every element of the storage it was given is reset, growable or fixed,
\* whatever the storage held.
C15_NewResetsStorage ==
    res = "New" =>
      /\ length = 0 /\ transfer_id = 0 /\ toggle = FALSE
      /\ \A i \in 1..Len(storage) : storage[i] = 0

\* C16: length is non-zero, and a payload is returned, only on a Transfer that has
\* accepted a start-marked frame since it was made.
C16_OnlyAfterStart ==
    res # "Panic" /\ (length # 0 \/ res = "Some") => h.hasStart

\* C17 as claimed: a non-start, non-end frame of length 1..=8 fed first to a fresh
\* Transfer is never rejected with FrameOrder: it yields IdMismatch if its transfer id
\* is not 0, Toggle if its transfer id is 0 and its toggle bit is clear, and is
\* otherwise accepted with its payload appended.
C17_FirstMiddleFrame ==
    res = "New" =>
      \A d \in MiddleFrames :
        LET r == Call(d)
            tid == TailTransferId(TailOf(d))
            tog == TailToggle(TailOf(d))
        IN  /\ r.res # "FrameOrder"
            /\ tid # 0 => r.res = "IdMismatch"
            /\ tid = 0 /\ ~tog => r.res = "Toggle"
            /\ tid = 0 /\ tog =>
                 /\ r.res = "None"
                 /\ r.t.length = Len(d) - 1
                 /\ SubSeq(r.t.storage, 1, Len(d) - 1) = SubSeq(d, 1, Len(d) - 1)

\* C17 amended: the same, but a frame with transfer id 0 and its toggle bit set is
\* accepted with its payload appended unless the storage is fixed and shorter than
\* the payload: then it is rejected with BufferTooSmall.
C17_FirstMiddleFrameIfRoom ==
    res = "New" =>
      \A d \in MiddleFrames :
        LET r == Call(d)
            tid == TailTransferId(TailOf(d))
            tog == TailToggle(TailOf(d))
            room == kind = "Owned" \/ Len(d) - 1 <= Len(storage)
        IN  /\ r.res # "FrameOrder"
            /\ tid # 0 => r.res = "IdMismatch"
            /\ tid = 0 /\ ~tog => r.res = "Toggle"
            /\ tid = 0 /\ tog /\ ~room => r.res = "BufferTooSmall"
            /\ tid = 0 /\ tog /\ room =>
                 /\ r.res = "None"
                 /\ r.t.length = Len(d) - 1
                 /\ SubSeq(r.t.storage, 1, Len(d) - 1) = SubSeq(d, 1, Len(d) - 1)

\* a Transfer that holds the byte of a middle frame and has accepted no start frame
C17_MiddleFrameStored ==
    /\ res = "None"
    /\ ~h.hasStart
    /\ transfer_id = 0 /\ toggle
    /\ length = 1 /\ h.accepted = <<PayloadBytes[1]>>

\* C18: add_frame never resets a Transfer: no call lowers length, and once length > 0
\* every start-marked frame of length 1..=8 is rejected with FrameOrder and leaves
\* the Transfer as it is, after a completed payload and after an error too.
C18_NeverReset ==
    \A d \in Frames :
      LET r == Call(d) IN
      /\ r.t.length >= length
      /\ length > 0 /\ d \in ValidFrames /\ TailStart(TailOf(d)) =>
           r.res = "FrameOrder" /\ r.t = Self

\* a start frame rejected by a Transfer whose transfer was completed
C18_StartAfterCompletion ==
    /\ res = "FrameOrder"
    /\ h.hasStart /\ ~h.open
    /\ length > 0 /\ length = Len(h.accepted)

\* the first check of add_frame that frame d fails in this state, in the order
\* DataLength, FrameOrder, IdMismatch, Toggle, BufferTooSmall; "" if it fails none
FirstFailing(d) ==
    IF Len(d) = 0 \/ Len(d) > 8 THEN "DataLength"
    ELSE LET start == TailStart(TailOf(d))
             end == TailEnd(TailOf(d))
         IN  IF (start /\ length # 0) \/ (~start /\ length = 0 /\ end) THEN "FrameOrder"
             ELSE IF ~start /\ TailTransferId(TailOf(d)) # transfer_id THEN "IdMismatch"
             ELSE IF ~start /\ TailToggle(TailOf(d)) = toggle THEN "Toggle"
             ELSE IF kind = "Borrowed" /\ length + PayloadLen(d) > Len(storage)
             THEN "BufferTooSmall"
             ELSE ""

\* C19: add_frame returns an error exactly when the frame fails one of the checks,
\* and the error is that of the first failing check in the order DataLength,
\* FrameOrder, IdMismatch, Toggle, BufferTooSmall: a non-start frame past the order
\* check whose id mismatches and whose toggle repeats yields IdMismatch, an end-marked
\* non-start frame at length 0 yields FrameOrder whatever its id, a start frame at
\* length # 0 yields FrameOrder whatever its payload.
C19_FirstFailingCheck ==
    \A d \in Frames :
      LET r == Call(d) IN
      /\ r.res \in Errors <=> FirstFailing(d) # ""
      /\ r.res \in Errors => r.res = FirstFailing(d)
      /\ d \in NonStartFrames =>
           /\ /\ ~(length = 0 /\ TailEnd(TailOf(d)))
              /\ TailTransferId(TailOf(d)) # transfer_id
              /\ TailToggle(TailOf(d)) = toggle
              => r.res = "IdMismatch"
           /\ length = 0 /\ TailEnd(TailOf(d)) => r.res = "FrameOrder"
      /\ d \in ValidFrames /\ TailStart(TailOf(d)) /\ length # 0 => r.res = "FrameOrder"

\* IdMismatch returned where frames that fail the id check and the toggle check
\* alike all get IdMismatch
C19_IdBeforeToggle ==
    /\ res = "IdMismatch"
    /\ length > 0
    /\ \E d \in NonStartFrames :
         /\ TailTransferId(TailOf(d)) # transfer_id
         /\ TailToggle(TailOf(d)) = toggle
         /\ Call(d).res = "IdMismatch"

\* C20 as claimed: a call that returns an error leaves length, the storage, the
\* committed transfer id and the stored toggle as they were.
C20_ErrorLeavesTransfer ==
    res # "Panic" =>
      \A d \in Frames :
        LET r == Call(d) IN
        r.res \in Errors => r.t = Self

\* C20 amended: a call that returns DataLength, FrameOrder, IdMismatch or Toggle
\* leaves the whole Transfer as it was; a call that returns BufferTooSmall leaves
\* length and the storage as they were but has stored the frame's toggle bit and,
\* for a start frame, its transfer id.
C20_EarlyErrorLeavesTransfer ==
    \A d \in Frames :
      LET r == Call(d) IN
      /\ r.res \in Errors \ {"BufferTooSmall"} => r.t = Self
      /\ r.res = "BufferTooSmall" =>
           r.t = [Self EXCEPT
                    !.toggle = TailToggle(TailOf(d)),
                    !.transfer_id = IF TailStart(TailOf(d))
                                    THEN TailTransferId(TailOf(d)) ELSE @]

\* a Toggle error on a Transfer that keeps the bytes, id and toggle of the frames
\* accepted before it
C20_ToggleErrorKeepsState ==
    /\ res = "Toggle"
    /\ h.hasStart /\ h.open
    /\ length > 0 /\ length = Len(h.accepted)
    /\ transfer_id = h.startId /\ toggle = h.accToggle

(***************************************************************************)
(* Properties of the identifier codec, under SpecId.                       *)
(***************************************************************************)
\* C10: for every raw value r, Id::new(r).as_raw() is r masked to 29 bits, whichever
\* variant r classifies as; below 2^29 the round trip is the identity.
C10_RawRoundTrip ==
    args.fn = "new" =>
      /\ enc = raw % (2 ^ 29)
      /\ raw < 2 ^ 29 => enc = raw

\* a service identifier decoded from a raw value with bits above bit 28
C10_MaskedService ==
    /\ args.fn = "new"
    /\ id.variant = "Service"
    /\ raw >= 2 ^ 29
    /\ id.request /\ id.destination_node # 0 /\ id.service_type # 0

\* bits hi..lo of r
Bits(r, hi, lo) == (r \div (2 ^ lo)) % (2 ^ (hi - lo + 1))

\* the last call was a validated constructor
ByConstructor == args.fn \in {"message", "anonymous", "service"}

\* a node id outside 1..=127
BadNode(n) == n = 0 \/ n > 127

\* C11: a validated constructor returns absence exactly when a field is out of range:
\* Id::message and Id::service if priority > 31 or a node id (source_node, for Service
\* also destination_node) is 0 or greater than 127, Id::anonymous if priority > 31 or
\* discriminator > 16383; every other input gives an Id.
C11_AbsentExactlyOutOfRange ==
    /\ args.fn = "message" =>
         (id = Absent <=> args.priority > 31 \/ BadNode(args.source_node))
    /\ args.fn = "service" =>
         (id = Absent <=> \/ args.priority > 31
                          \/ BadNode(args.source_node)
                          \/ BadNode(args.destination_node))
    /\ args.fn = "anonymous" =>
         (id = Absent <=> args.priority > 31 \/ args.discriminator > 16383)

\* C12: Id::new classifies every raw value r as exactly one variant: Service iff bit 7
\* of r is set, Anonymous iff bit 7 is clear and bits 6..0 are all 0, Message
\* otherwise; the priority is bits 28..24 (never above 31) and the fields of each
\* variant are the bit ranges of the layout table.
C12_ClassifyByLayout ==
    args.fn = "new" =>
      /\ id.variant \in {"Service", "Anonymous", "Message"}
      /\ id.variant = "Service" <=> Bits(raw, 7, 7) = 1
      /\ id.variant = "Anonymous" <=> Bits(raw, 7, 7) = 0 /\ Bits(raw, 6, 0) = 0
      /\ id.variant = "Message" <=> Bits(raw, 7, 7) = 0 /\ Bits(raw, 6, 0) # 0
      /\ id.priority = Bits(raw, 28, 24) /\ id.priority <= 31
      /\ id.variant = "Message" =>
           id = [variant |-> "Message", priority |-> Bits(raw, 28, 24),
                 type_id |-> Bits(raw, 23, 8), source_node |-> Bits(raw, 6, 0)]
      /\ id.variant = "Anonymous" =>
           id = [variant |-> "Anonymous", priority |-> Bits(raw, 28, 24),
                 discriminator |-> Bits(raw, 23, 10), type_id |-> Bits(raw, 9, 8)]
      /\ id.variant = "Service" =>
           id = [variant |-> "Service", priority |-> Bits(raw, 28, 24),
                 service_type |-> Bits(raw, 23, 16), request |-> (Bits(raw, 15, 15) = 1),
                 destination_node |-> Bits(raw, 14, 8), source_node |-> Bits(raw, 6, 0)]

\* the anonymous identifier 0x104E2D00 decoded from a raw value with bits above bit 28
C12_AnonymousDecoded ==
    /\ args.fn = "new"
    /\ raw >= 2 ^ 29
    /\ id = [variant |-> "Anonymous", priority |-> 16, discriminator |-> 5003, type_id |-> 1]

\* C13: for every Id a validated constructor returns, Id::new(id.as_raw()) is that Id:
\* the same variant and the same field values, which are the ones given, but for an
\* Anonymous type_id, which is the given type_id masked to its 2 low bits.
C13_FieldsRoundTrip ==
    ByConstructor /\ id # Absent =>
      /\ IdNew(enc) = id
      /\ id.priority = args.priority
      /\ args.fn = "message" =>
           /\ id.variant = "Message"
           /\ id.type_id = args.type_id /\ id.source_node = args.source_node
      /\ args.fn = "anonymous" =>
           /\ id.variant = "Anonymous"
           /\ id.discriminator = args.discriminator /\ id.type_id = args.type_id % 4
      /\ args.fn = "service" =>
           /\ id.variant = "Service"
           /\ id.service_type = args.service_type /\ id.request = args.request
           /\ id.destination_node = args.destination_node
           /\ id.source_node = args.source_node

\* an anonymous identifier built from a type_id wider than 2 bits
C13_AnonymousMasked ==
    /\ args.fn = "anonymous"
    /\ id # Absent
    /\ args.type_id = 123 /\ id.type_id = 3 /\ id.discriminator = 16383

\* C14: as_raw() of any Id value, fields out of their declared ranges included, is
\* below 2^29, each field lands in its own bit positions cut to their width, and so
\* ExtendedId::new(as_raw()) is never None: the conversion's unwrap never fails.
C14_EncodeWithin29Bits ==
    args.fn = "into" =>
      /\ enc < 2 ^ 29
      /\ ExtendedIdNew(enc) # Absent
      /\ Bits(enc, 28, 24) = id.priority % 32
      /\ id.variant = "Message" =>
           /\ Bits(enc, 23, 8) = id.type_id % 65536
           /\ Bits(enc, 7, 7) = 0
           /\ Bits(enc, 6, 0) = id.source_node % 128
      /\ id.variant = "Anonymous" =>
           /\ Bits(enc, 23, 10) = id.discriminator % 16384
           /\ Bits(enc, 9, 8) = id.type_id % 4
           /\ Bits(enc, 7, 0) = 0
      /\ id.variant = "Service" =>
           /\ Bits(enc, 23, 16) = id.service_type % 256
           /\ Bits(enc, 15, 15) = (IF id.request THEN 1 ELSE 0)
           /\ Bits(enc, 14, 8) = id.destination_node % 128
           /\ Bits(enc, 7, 7) = 1
           /\ Bits(enc, 6, 0) = id.source_node % 128

\* a Service value whose priority and node ids are all 255 is converted
C14_OutOfRangeService ==
    /\ args.fn = "into"
    /\ id.variant = "Service"
    /\ id.priority = 255 /\ id.destination_node = 255 /\ id.source_node = 255

====
